---- MODULE Spec2Model ----
(***************************************************************************)
(* State-machine model of pypowerwall's FleetAPI translation layer         *)
(* (pypowerwall/fleetapi/pypowerwall_fleetapi.py, class                    *)
(* PyPowerwallFleetAPI): path dispatch (poll/post), the read and write     *)
(* translators, and site selection (connect/change_site).                  *)
(*                                                                         *)
(* Python values are encoded so that TLC can compare them:                 *)
(*   - a document that may be None is a record; None is [none |-> TRUE];   *)
(*   - a string field that may be None holds the token NoneStr;            *)
(*   - a payload field is a tagged value [t |-> tag, v |-> number].        *)
(***************************************************************************)
EXTENDS Integers, Sequences, FiniteSets, TLC

VARIABLES
    tesla,          \* self.tesla       (read by poll/post, never assigned by the class)
    siteid,         \* self.siteid
    siteindex,      \* self.siteindex
    site,           \* self.site
    fleet_site_id,  \* self.fleet.site_id, fixed when FleetAPI is constructed
    apilock,        \* self.apilock     (set of keys whose lock flag is set)
    pwcachetime,    \* self.pwcachetime (set of <<key, timestamp>> pairs)
    pwcacheexpire,  \* self.pwcacheexpire
    now,            \* time.time(), in whole seconds
    pc,             \* per caller: "idle" or "wait" (blocked in an upstream call)
    call,           \* per caller: the poll/post call being served (or last served)
    got,            \* per caller: upstream responses received so far in the call
    sent,           \* per caller: calls made to collaborators so far in the call
    result,         \* per caller: outcome of the last completed call
    lastret,        \* site-selection: outcome of the last connect/change_site
    aggr_stub,      \* module-level API_METERS_AGGREGATES_STUB (the updated fields)
    sys_stub,       \* module-level API_SYSTEM_STATUS_STUB (the updated fields)
    arg,            \* translator check: the upstream documents handed to a translator
    ret             \* translator check: the document the translator returned

vars == <<tesla, siteid, siteindex, site, fleet_site_id, apilock, pwcachetime,
          pwcacheexpire, now, pc, call, got, sent, result, lastret, aggr_stub,
          sys_stub, arg, ret>>

selvars  == <<siteid, siteindex, site, lastret>>
callvars == <<pc, call, got, sent, result>>
purevars == <<arg, ret>>

-----------------------------------------------------------------------------
(* Bounds of the model *)

MaxTime == 1        \* the clock runs 0..MaxTime
NumCallers == 2     \* concurrent callers of poll/post

(* Program constants *)

DefaultCacheExpire == 5     \* pwcacheexpire: int = 5

-----------------------------------------------------------------------------
(* Python values *)

None == [none |-> TRUE]
NoneStr == "<None>"

Callers == 1..NumCallers

\* Truthiness of a tagged payload value (bool, int, str, none, absent).
\* dict.get() of an absent key is None, which is falsy.
Truthy(x) ==
    CASE x.t = "bool"   -> x.v # 0
      [] x.t = "int"    -> x.v # 0
      [] x.t = "str"    -> x.v # 0     \* v indexes ModeNames; 0 is the empty string
      [] x.t = "none"   -> FALSE
      [] x.t = "absent" -> FALSE

\* payload.get(k) is not None
IsNotNone(x) == x.t \notin {"none", "absent"}

\* x == False in Python: False == False, 0 == False
EqFalse(x) == x.t \in {"bool", "int"} /\ x.v = 0

PyBool(b) == [t |-> "bool", v |-> IF b THEN 1 ELSE 0]
PyInt(n)  == [t |-> "int", v |-> n]
PyNone    == [t |-> "none", v |-> 0]
Absent    == [t |-> "absent", v |-> 0]

PyStr(i)  == [t |-> "str", v |-> i]

\* Operating-mode strings a payload may carry; index 0 is "".
ModeNames == <<"self_consumption", "autonomous">>
ModeOf(x) == IF x.t = "str" /\ x.v \in 1..Len(ModeNames) THEN ModeNames[x.v] ELSE ""

-----------------------------------------------------------------------------
(* Dispatch tables *)

LivePaths ==
    {"/api/devices/vitals", "/api/meters/aggregates", "/api/operation",
     "/api/site_info", "/api/site_info/site_name", "/api/status",
     "/api/system_status", "/api/system_status/grid_status",
     "/api/system_status/soe", "/vitals"}

MockPaths ==
    {"/api/login/Basic", "/api/logout", "/api/auth/toggle/supported",
     "/api/customer", "/api/customer/registration", "/api/installer",
     "/api/meters", "/api/meters/readings", "/api/meters/site",
     "/api/meters/solar", "/api/networks", "/api/powerwalls",
     "/api/site_info/grid_codes", "/api/sitemaster", "/api/solar_powerwall",
     "/api/solars", "/api/solars/brands",
     "/api/synchrometer/ct_voltage_references", "/api/system/update/status",
     "/api/system_status/grid_faults", "/api/troubleshooting/problems"}

TimeoutPaths == {"/api/meters/readings", "/api/networks", "/api/site_info/grid_codes"}

\* init_poll_api_map: path -> handler
poll_api_map ==
    [p \in LivePaths \cup MockPaths |->
        CASE p = "/api/devices/vitals"            -> "get_api_devices_vitals"
          [] p = "/api/meters/aggregates"         -> "get_api_meters_aggregates"
          [] p = "/api/operation"                 -> "get_api_operation"
          [] p = "/api/site_info"                 -> "get_api_site_info"
          [] p = "/api/site_info/site_name"       -> "get_api_site_info_site_name"
          [] p = "/api/status"                    -> "get_api_status"
          [] p = "/api/system_status"             -> "get_api_system_status"
          [] p = "/api/system_status/grid_status" -> "get_api_system_status_grid_status"
          [] p = "/api/system_status/soe"         -> "get_api_system_status_soe"
          [] p = "/vitals"                        -> "get_vitals"
          [] p \in TimeoutPaths                   -> "get_api_unimplemented_timeout"
          [] p = "/api/meters/solar"              -> "get_unimplemented_api"
          [] OTHER                                -> "mock"]

\* init_post_api_map: path -> handler
post_api_map == [p \in {"/api/operation"} |-> "post_api_operation"]

\* dict.get(api): the handler, or NoneStr when the path is not registered
MapGet(map, api) == IF api \in DOMAIN map THEN map[api] ELSE NoneStr

-----------------------------------------------------------------------------
(* Upstream documents *)

\* A live-status document of the cloud API. n numbers the telemetry reading:
\* every numeric field of one reading is derived from it.
MkLive(isl, gs, n) ==
    [island_status |-> isl, grid_status |-> gs, grid_services_active |-> FALSE,
     timestamp |-> n, solar_power |-> 10 * n + 1, battery_power |-> 10 * n + 2,
     load_power |-> 10 * n + 3, grid_power |-> 10 * n + 4,
     grid_services_power |-> 10 * n + 5]

\* A site-configuration document of the cloud API. comps is the components
\* dictionary (a record; an absent key is an absent field).
MkConfig(sid, din, comps, mode, reserve) ==
    [site |-> sid, id |-> din, site_name |-> "Home", installation_date |-> "2021",
     installation_time_zone |-> "tz", version |-> "24.4", components |-> comps,
     battery_count |-> 2, default_real_mode |-> mode,
     backup_reserve_percent |-> reserve, nameplate_power |-> 10800,
     nameplate_energy |-> 27000, max_site_meter_power_ac |-> 1000,
     min_site_meter_power_ac |-> -1000, utility |-> NoneStr]

\* lookup(data, keylist): the value at the end of the key path as [val |-> v],
\* or None when a key on the way is missing.
RECURSIVE lookup(_, _)
lookup(data, keylist) ==
    IF Len(keylist) = 1
    THEN IF Head(keylist) \in DOMAIN data THEN [val |-> data[Head(keylist)]] ELSE None
    ELSE IF Head(keylist) \in DOMAIN data
         THEN lookup(data[Head(keylist)], Tail(keylist))
         ELSE None

-----------------------------------------------------------------------------
(* Read translators: the document each handler builds from the upstream      *)
(* documents it received (None when the fleet client returned None).         *)

\* A device identifier is a sequence of characters; NoneSeq stands for None.
NoneSeq == <<NoneStr>>

\* str.split("--"): the parts between non-overlapping separators, left to right.
RECURSIVE SplitDashes(_, _)
SplitDashes(s, cur) ==
    IF s = <<>> THEN <<cur>>
    ELSE IF Len(s) >= 2 /\ s[1] = "-" /\ s[2] = "-"
         THEN <<cur>> \o SplitDashes(SubSeq(s, 3, Len(s)), <<>>)
         ELSE SplitDashes(Tail(s), Append(cur, Head(s)))

get_api_status(config) ==
    IF config = None THEN None
    ELSE LET gw == lookup(config, <<"components", "gateway">>) IN
         [din |-> config.id, start_time |-> config.installation_date,
          up_time_seconds |-> NoneStr, is_new |-> FALSE, version |-> config.version,
          commission_count |-> 0,
          device_type |-> IF gw = None THEN NoneStr ELSE gw.val,
          teg_type |-> "unknown", sync_type |-> "v2.1",
          cellular_disabled |-> FALSE, can_reboot |-> TRUE]

get_api_system_status_grid_status(power) ==
    IF power = None THEN None
    ELSE [grid_status |-> IF power.grid_status = "Active"
                          THEN "SystemGridConnected"
                          ELSE "SystemIslandedActive",
          grid_services_active |-> power.grid_services_active]

get_api_site_info_site_name(config) ==
    IF config = None THEN None
    ELSE [site_name |-> config.site_name, timezone |-> config.installation_time_zone]

\* Powers and energies are reported in kW/kWh: the value is milli/1000.
get_api_site_info(config) ==
    IF config = None THEN None
    ELSE [max_system_energy_kWh |-> [milli |-> config.nameplate_energy],
          max_system_power_kW |-> [milli |-> config.nameplate_power],
          site_name |-> config.site_name,
          timezone |-> config.installation_time_zone,
          max_site_meter_power_kW |-> config.max_site_meter_power_ac,
          min_site_meter_power_kW |-> config.min_site_meter_power_ac,
          nominal_system_energy_kWh |-> [milli |-> config.nameplate_energy],
          nominal_system_power_kW |-> [milli |-> config.nameplate_power],
          panel_max_current |-> NoneStr,
          grid_code |-> [grid_code |-> NoneStr, country |-> NoneStr,
                         state |-> NoneStr, utility |-> config.utility]]

\* Mutant: a missing configuration is rendered as a document of defaults.
get_api_operation_defaults(config) ==
    IF config = None THEN [real_mode |-> NoneStr, backup_reserve_percent |-> 0]
    ELSE [real_mode |-> config.default_real_mode,
          backup_reserve_percent |-> config.backup_reserve_percent]

get_api_operation(config) ==
    IF config = None THEN None
    ELSE [real_mode |-> config.default_real_mode,
          \* config.get("backup_reserve_percent") or 0
          backup_reserve_percent |-> config.backup_reserve_percent]

\* The alert the vitals translator reports for a live-status document.
VitalsAlert(power) ==
    CASE power.island_status = "on_grid"              -> "SystemConnectedToGrid"
      [] power.island_status = "off_grid_intentional" -> "ScheduledIslandContactorOpen"
      [] power.island_status = "off_grid"             -> "UnscheduledIslandContactorOpen"
      [] OTHER -> IF power.grid_status = "Active" THEN "SystemConnectedToGrid" ELSE ""

\* get_vitals after both fetches: raises AttributeError when the configuration
\* has no "id" (None.split), otherwise returns the synthesized device record.
get_vitals(config, power, t) ==
    IF config = None \/ power = None THEN [kind |-> "return", doc |-> None]
    ELSE IF config.id = NoneSeq THEN [kind |-> "raise", exc |-> "AttributeError"]
    ELSE LET parts == SplitDashes(config.id, <<>>)
             part_number   == IF Len(parts) = 2 THEN parts[1] ELSE NoneSeq
             serial_number == IF Len(parts) = 2 THEN parts[2] ELSE NoneSeq
         IN [kind |-> "return",
             doc |-> [key |-> <<"STSTSM", part_number, serial_number>>,
                      partNumber |-> part_number, serialNumber |-> serial_number,
                      manufacturer |-> "Simulated",
                      firmwareVersion |-> config.version,
                      lastCommunicationTime |-> t,
                      ecuType |-> 207, location |-> "Simulated",
                      alerts |-> <<VitalsAlert(power)>>]]

\* The grid state the system-status translator derives (island_status first,
\* then the Active grid flag).
SystemIslandState(power) ==
    IF power.island_status = "on_grid" THEN "SystemGridConnected"
    ELSE IF power.grid_status = "Active" THEN "SystemGridConnected"
         ELSE "SystemIslandedActive"

\* The shipped contents of the two module-level stub documents.
ShippedStub == [shipped |-> TRUE]

\* Mutant: the inverter inventory is tested for truth, not for None.
solar_inverters_truthy(config) ==
    LET inverters == lookup(config, <<"components", "inverters">>)
        solar     == lookup(config, <<"components", "solar">>)
    IN IF inverters # None /\ inverters.val # <<>> THEN Len(inverters.val)
       ELSE IF solar # None /\ solar.val THEN 1
       ELSE 0

\* The number of inverters the aggregates translator reports for the solar meter.
solar_inverters(config) ==
    LET inverters == lookup(config, <<"components", "inverters">>)
        solar     == lookup(config, <<"components", "solar">>)
    IN IF inverters # None THEN Len(inverters.val)
       ELSE IF solar # None /\ solar.val THEN 1
       ELSE 0

\* The fields get_api_meters_aggregates writes into API_METERS_AGGREGATES_STUB.
AggregatesUpdate(config, power) ==
    [site    |-> [last_communication_time |-> power.timestamp,
                  instant_power |-> power.grid_power],
     battery |-> [last_communication_time |-> power.timestamp,
                  instant_power |-> power.battery_power,
                  num_meters_aggregated |-> config.battery_count],
     load    |-> [last_communication_time |-> power.timestamp,
                  instant_power |-> power.load_power],
     solar   |-> [last_communication_time |-> power.timestamp,
                  instant_power |-> power.solar_power,
                  num_meters_aggregated |-> solar_inverters(config)]]

\* Mutant: when a fetch yields nothing, serve the values of the last reading.
get_api_meters_aggregates_stale(config, power) ==
    IF config = None \/ power = None
    THEN IF aggr_stub = ShippedStub THEN None ELSE aggr_stub
    ELSE AggregatesUpdate(config, power)

get_api_meters_aggregates(config, power) ==
    IF config = None \/ power = None THEN None
    ELSE AggregatesUpdate(config, power)

\* The fields get_api_system_status writes into API_SYSTEM_STATUS_STUB.
SystemStatusUpdate(power, config, total_pack_energy, energy_left) ==
    [nominal_full_pack_energy |-> total_pack_energy,
     nominal_energy_remaining |-> energy_left,
     max_charge_power |-> config.nameplate_power,
     max_discharge_power |-> config.nameplate_power,
     max_apparent_power |-> config.nameplate_power,
     grid_services_power |-> power.grid_services_power,
     system_island_state |-> SystemIslandState(power),
     available_blocks |-> config.battery_count,
     solar_real_power_limit |-> power.solar_power,
     blocks_controlled |-> config.battery_count]

\* percentage_charged = self.fleet.battery_level() or 0
get_api_system_status_soe(level) ==
    [percentage |-> IF Truthy(level) THEN level.v ELSE 0]

\* The documents of the mock handlers (fixed payloads).
MockDoc(func, api) ==
    CASE func = "get_api_unimplemented_timeout" -> [str |-> "TIMEOUT!"]
      [] func = "get_unimplemented_api"         -> None
      [] OTHER                                  -> [mock |-> api]

UnknownAPI(api) == [ERROR |-> <<"Unknown API: ", api>>]

-----------------------------------------------------------------------------
(* Write translator *)

EmptyDict == [dict |-> "empty"]

\* The value handed to set_battery_reserve: False (and 0) become 0.
ReserveArg(brp) == IF EqFalse(brp) THEN PyInt(0) ELSE brp

\* Mutant: the payload check is skipped.
PayloadRejected_skipped(payload) == FALSE

\* post_api_operation's payload check: raises when neither field is truthy.
PayloadRejected(payload) ==
    ~Truthy(payload.backup_reserve_percent) /\ ~Truthy(payload.real_mode)

\* Mutant: the operating-mode entry reports the result of the first call.
OperationResp_first_result(payload, g) ==
    LET hasR == IsNotNone(payload.backup_reserve_percent)
        hasM == IsNotNone(payload.real_mode)
        r == [backup_reserve_percent |-> payload.backup_reserve_percent,
              result |-> g[1]]
        m == [real_mode |-> payload.real_mode, result |-> g[1]]
    IN CASE hasR /\ hasM  -> [set_backup_reserve_percent |-> r, set_operation |-> m]
         [] hasR /\ ~hasM -> [set_backup_reserve_percent |-> r]
         [] ~hasR /\ hasM -> [set_operation |-> m]
         [] OTHER         -> EmptyDict

\* resp as built by post_api_operation from the upstream results g (in call order).
OperationResp(payload, g) ==
    LET hasR == IsNotNone(payload.backup_reserve_percent)
        hasM == IsNotNone(payload.real_mode)
        r == [backup_reserve_percent |-> payload.backup_reserve_percent,
              result |-> g[1]]
        m == [real_mode |-> payload.real_mode,
              result |-> g[IF hasR THEN 2 ELSE 1]]
    IN CASE hasR /\ hasM  -> [set_backup_reserve_percent |-> r, set_operation |-> m]
         [] hasR /\ ~hasM -> [set_backup_reserve_percent |-> r]
         [] ~hasR /\ hasM -> [set_operation |-> m]
         [] OTHER         -> EmptyDict

-----------------------------------------------------------------------------
(* Calls to collaborators made while serving a poll or a post *)

Req(fn, a) == [fn |-> fn, arg |-> a]

\* The fleet-client calls a read handler makes, in order, given the responses g
\* received so far. No handler passes force on to get_site_info/get_live_status;
\* get_api_system_status passes it to get_battery only.
PollPlan(func, force, g) ==
    CASE func = "get_api_system_status_soe" -> <<Req("battery_level", PyNone)>>
      [] func \in {"get_api_status", "get_api_site_info_site_name",
                   "get_api_site_info", "get_api_operation"}
            -> <<Req("get_site_info", PyNone)>>
      [] func = "get_api_system_status_grid_status"
            -> <<Req("get_live_status", PyNone)>>
      [] func \in {"get_vitals", "get_api_meters_aggregates"}
            -> <<Req("get_site_info", PyNone), Req("get_live_status", PyNone)>>
      [] func = "get_api_system_status"
            -> <<Req("get_live_status", PyNone), Req("get_site_info", PyNone),
                 Req("get_battery", PyBool(force))>>
               \o (IF Len(g) >= 3 /\ g[1] # None /\ g[2] # None /\ g[3] # None
                   THEN <<Req("total_pack_energy", PyNone),
                          Req("energy_left", PyNone)>>
                   ELSE <<>>)
      [] OTHER -> <<>>

Return(d, r) == [kind |-> "return", doc |-> d, ref |-> r]
Raise(e)     == [kind |-> "raise", exc |-> e]
Pending      == [kind |-> "pending"]

\* What a read handler returns once every call of its plan has been answered.
PollOutcome(func, api, g, t) ==
    CASE func = "get_api_system_status_soe" -> Return(get_api_system_status_soe(g[1]), "own")
      [] func = "get_api_status" -> Return(get_api_status(g[1]), "own")
      [] func = "get_api_site_info_site_name"
            -> Return(get_api_site_info_site_name(g[1]), "own")
      [] func = "get_api_site_info" -> Return(get_api_site_info(g[1]), "own")
      [] func = "get_api_operation" -> Return(get_api_operation(g[1]), "own")
      [] func = "get_api_system_status_grid_status"
            -> Return(get_api_system_status_grid_status(g[1]), "own")
      [] func = "get_vitals" ->
            LET v == get_vitals(g[1], g[2], t)
            IN IF v.kind = "raise" THEN v ELSE Return(v.doc, "own")
      [] func = "get_api_meters_aggregates" ->
            LET d == get_api_meters_aggregates(g[1], g[2])
            IN IF d = None THEN Return(None, "own") ELSE Return(d, "aggr")
      [] func = "get_api_system_status" ->
            IF Len(g) < 5 THEN Return(None, "own")
            ELSE Return(SystemStatusUpdate(g[1], g[2], g[4], g[5]), "sys")
      [] func = "get_api_devices_vitals" -> Return(None, "own")
      [] OTHER -> Return(MockDoc(func, api), "own")

\* The mutating fleet-client calls post_api_operation makes, in order.
PostPlan(payload) ==
    IF payload = None \/ PayloadRejected(payload) THEN <<>>
    ELSE (IF IsNotNone(payload.backup_reserve_percent)
          THEN <<Req("set_battery_reserve", ReserveArg(payload.backup_reserve_percent))>>
          ELSE <<>>)
         \o (IF IsNotNone(payload.real_mode)
             THEN <<Req("set_operating_mode", payload.real_mode)>>
             ELSE <<>>)

\* What post_api_operation returns or raises.
PostOutcome(payload, g) ==
    IF payload = None THEN Raise("AttributeError")
    ELSE IF PayloadRejected(payload) THEN Raise("PyPowerwallFleetAPIInvalidPayload")
    ELSE Return(OperationResp(payload, g), "own")

Plan(cl, g) ==
    IF cl.op = "poll"
    THEN PollPlan(MapGet(poll_api_map, cl.api), cl.force, g)
    ELSE PostPlan(cl.payload)

Outcome(cl, g, t) ==
    IF cl.op = "poll"
    THEN PollOutcome(MapGet(poll_api_map, cl.api), cl.api, g, t)
    ELSE PostOutcome(cl.payload, g)

\* What the object a call returned holds now: the handlers of the aggregates
\* and system-status paths return the module-level stub itself, not a copy.
Deref(r) ==
    CASE r.ref = "aggr" -> aggr_stub
      [] r.ref = "sys"  -> sys_stub
      [] OTHER          -> r.doc

\* if res: -- a returned dictionary is truthy when it is not empty
ResTruthy(out) == out.kind = "return" /\ out.doc # EmptyDict /\ out.doc # None

\* Mutant: post returns without invalidating.
PostInvalidates_never(cl, out) == FALSE

\* post(): "if res: super()._invalidate_cache(api)"
PostInvalidates(cl, out) == cl.op = "post" /\ ResTruthy(out)

InvalidateReq(api) == [fn |-> "_invalidate_cache", key |-> api]

\* PyPowerwallBase._invalidate_cache(api): remove the cache entry of the key.
InvalidateCache(cache, api) == {e \in cache : e[1] # api}

-----------------------------------------------------------------------------
(* Inputs and upstream answers the model draws from *)

NoneId == -1                \* None where an integer site identifier is expected

Din1 == <<"P", "-", "-", "S">>

ConfigSample(sid) ==
    {MkConfig(sid, Din1, [gateway |-> "teg", solar |-> TRUE], "self_consumption", 20)}

LiveSample == {MkLive("on_grid", "Active", 1), MkLive("off_grid", NoneStr, 2)}

\* What the cloud may answer to a fleet-client call (None: no data).
Responses(req, sid) ==
    CASE req.fn = "get_site_info"       -> {None} \cup ConfigSample(sid)
      [] req.fn = "get_live_status"     -> {None} \cup LiveSample
      [] req.fn = "get_battery"         -> {None, [battery |-> "ok"]}
      [] req.fn = "battery_level"       -> {PyNone, PyInt(55)}
      [] req.fn = "total_pack_energy"   -> {PyNone, PyInt(27)}
      [] req.fn = "energy_left"         -> {PyInt(13)}
      [] req.fn = "set_battery_reserve" -> {PyNone, req.arg}
      [] req.fn = "set_operating_mode"  -> {PyNone, req.arg}

PollApis == LivePaths \cup {"/api/logout", "/api/meters/readings",
                            "/api/meters/solar", "/api/nonexistent"}

PostApis == {"/api/operation", "/api/status", "/api/nonexistent"}

Payloads ==
    {None} \cup
    [backup_reserve_percent : {Absent, PyBool(FALSE), PyInt(0), PyInt(20)},
     real_mode : {Absent, PyNone, PyStr(1)}]

\* A call record; after_post notes that the caller's previous call was a post
\* that returned a truthy result (so this call is the next one after a write).
\* selected notes self.siteid at the moment the call was made.
PollCallOf(api, force) ==
    [op |-> "poll", api |-> api, force |-> force, payload |-> None,
     after_post |-> FALSE, selected |-> NoneId]
PostCallOf(api, payload) ==
    [op |-> "post", api |-> api, force |-> FALSE, payload |-> payload,
     after_post |-> FALSE, selected |-> NoneId]
NoCall == [op |-> "none", api |-> "", force |-> FALSE, payload |-> None,
           after_post |-> FALSE, selected |-> NoneId]

\* The fleet-client calls of caller c's last call that returned None.
FailedCalls(c) ==
    {sent[c][i].fn : i \in {j \in 1..Len(got[c]) : got[c][j] = None}}

\* The callers blocked in a fleet-client call, and the call each is blocked in.
Waiting == {c \in Callers : pc[c] = "wait"}
LastSent(c) == sent[c][Len(sent[c])]

-----------------------------------------------------------------------------
(* poll and post, one step per blocking fleet-client call *)

\* The handler of call cl runs on from the responses g: it either blocks in its
\* next fleet-client call or finishes. post invalidates the read cache of the
\* path when the handler's result is truthy.
Continue(c, cl, g, snt) ==
    LET plan == Plan(cl, g) IN
    IF Len(g) < Len(plan)
    THEN /\ pc' = [pc EXCEPT ![c] = "wait"]
         /\ sent' = [sent EXCEPT ![c] = Append(snt, plan[Len(g) + 1])]
         /\ got' = [got EXCEPT ![c] = g]
         /\ result' = [result EXCEPT ![c] = Pending]
         /\ UNCHANGED <<pwcachetime, aggr_stub, sys_stub>>
    ELSE LET out == Outcome(cl, g, now)
             inval == PostInvalidates(cl, out)
         IN /\ pc' = [pc EXCEPT ![c] = "idle"]
            /\ got' = [got EXCEPT ![c] = g]
            /\ result' = [result EXCEPT ![c] = out]
            /\ sent' = [sent EXCEPT ![c] =
                  IF inval
                  THEN Append(snt, InvalidateReq(cl.api))
                  ELSE snt]
            /\ pwcachetime' = IF inval THEN InvalidateCache(pwcachetime, cl.api)
                              ELSE pwcachetime
            /\ aggr_stub' = IF out.kind = "return" /\ out.ref = "aggr"
                            THEN out.doc ELSE aggr_stub
            /\ sys_stub' = IF out.kind = "return" /\ out.ref = "sys"
                           THEN out.doc ELSE sys_stub

\* poll()/post() up to the first fleet-client call (or to the return).
Serve(c, cl, map) ==
    /\ pc[c] = "idle"
    /\ call' = [call EXCEPT ![c] =
          [cl EXCEPT !.after_post = call[c].op = "post" /\ ResTruthy(result[c]),
                     !.selected = siteid]]
    /\ IF tesla = NoneStr
       THEN /\ result' = [result EXCEPT ![c] = Raise("PyPowerwallFleetAPITeslaNotConnected")]
            /\ got' = [got EXCEPT ![c] = <<>>]
            /\ sent' = [sent EXCEPT ![c] = <<>>]
            /\ UNCHANGED <<pc, pwcachetime, aggr_stub, sys_stub>>
       ELSE IF MapGet(map, cl.api) = NoneStr
       THEN /\ result' = [result EXCEPT ![c] = Return(UnknownAPI(cl.api), "own")]
            /\ got' = [got EXCEPT ![c] = <<>>]
            /\ sent' = [sent EXCEPT ![c] = <<>>]
            /\ UNCHANGED <<pc, pwcachetime, aggr_stub, sys_stub>>
       ELSE Continue(c, cl, <<>>, <<>>)
    /\ UNCHANGED <<tesla, fleet_site_id, apilock, pwcacheexpire, now>>
    /\ UNCHANGED <<selvars, purevars>>

\* Mutant: a failed fetch leaves its key locked, and the caller's next call waits.
Dispatch_locked_after_failure(c, cl, map) ==
    /\ FailedCalls(c) = {}
    /\ Serve(c, cl, map)

\* Mutant: one lock for all keys; a call waits while any fetch is in flight.
Dispatch_global_lock(c, cl, map) ==
    /\ Waiting = {}
    /\ Serve(c, cl, map)

\* Neither poll nor post takes a lock: a call is served as soon as it is made.
Dispatch(c, cl, map) == Serve(c, cl, map)

poll(c, api, force) == Dispatch(c, PollCallOf(api, force), poll_api_map)

post(c, api, payload) == Dispatch(c, PostCallOf(api, payload), post_api_map)

\* The fleet-client call caller c is blocked in returns r; the handler runs on.
FleetReturn(c, r) ==
    /\ pc[c] = "wait"
    /\ Continue(c, call[c], Append(got[c], r), sent[c])
    /\ UNCHANGED <<tesla, fleet_site_id, apilock, pwcacheexpire, now, call>>
    /\ UNCHANGED <<selvars, purevars>>

\* A second passes.
Tick ==
    /\ now < MaxTime
    /\ now' = now + 1
    /\ UNCHANGED <<tesla, fleet_site_id, apilock, pwcachetime, pwcacheexpire,
                   aggr_stub, sys_stub>>
    /\ UNCHANGED <<selvars, callvars, purevars>>

-----------------------------------------------------------------------------
(* Construction *)

SiteIds == {1, 2}

\* __init__: empty lock and cache tables, siteindex 0, the FleetAPI client built
\* for the given site; siteid falls back to the client's configured site.
\* tesla and site are not assigned by __init__.
Constructed(site_arg, cfg_site, expire) ==
    /\ fleet_site_id = IF site_arg # NoneId THEN site_arg ELSE cfg_site
    /\ siteid = fleet_site_id
    /\ siteindex = 0
    /\ apilock = {}
    /\ pwcachetime = {}
    /\ pwcacheexpire = expire
    /\ aggr_stub = ShippedStub
    /\ sys_stub = ShippedStub

CallersIdle ==
    /\ pc = [c \in Callers |-> "idle"]
    /\ call = [c \in Callers |-> NoCall]
    /\ got = [c \in Callers |-> <<>>]
    /\ sent = [c \in Callers |-> <<>>]
    /\ result = [c \in Callers |-> Pending]

NoPure == arg = None /\ ret = None

\* Concurrent polls and posts on an instance bound to one site.
Init ==
    /\ Constructed(1, NoneId, DefaultCacheExpire)
    /\ tesla \in {NoneStr, "session"}
    /\ site = None
    /\ lastret = Pending
    /\ now = 0
    /\ CallersIdle
    /\ NoPure

\* The calls concurrent callers issue in Spec: polls with force=false of three
\* live paths (one per combination of upstream resources) and a valid write.
SpecPolls == {"/api/meters/aggregates", "/api/operation",
              "/api/system_status/grid_status"}
SpecPayloads == {[backup_reserve_percent |-> PyInt(20), real_mode |-> Absent]}

Next ==
    \/ \E c \in Callers, api \in SpecPolls : poll(c, api, FALSE)
    \/ \E c \in Callers, payload \in SpecPayloads : post(c, "/api/operation", payload)
    \/ \E c \in Waiting :
          \E r \in Responses(LastSent(c), fleet_site_id) : FleetReturn(c, r)
    \/ Tick

Spec == Init /\ [][Next]_vars

\* One caller, every path of the dispatch tables (and unregistered ones), every
\* payload shape.
InitDispatch == Init

NextDispatch ==
    \/ \E api \in PollApis, force \in BOOLEAN : poll(1, api, force)
    \/ \E api \in PostApis, payload \in Payloads : post(1, api, payload)
    \/ \E c \in Waiting :
          \E r \in Responses(LastSent(c), fleet_site_id) : FleetReturn(c, r)
    \/ Tick

SpecDispatch == InitDispatch /\ [][NextDispatch]_vars

-----------------------------------------------------------------------------
(* Site selection *)

MaxSites == 2       \* longest site list the cloud returns

SiteName(i) == IF i = 1 THEN "Home" ELSE "Cabin"
SiteRec(i) == [energy_site_id |-> i, site_name |-> SiteName(i)]

\* Lists of distinct sites, up to MaxSites long.
RECURSIVE ListsUpTo(_)
ListsUpTo(n) ==
    IF n = 0 THEN {<<>>}
    ELSE LET shorter == ListsUpTo(n - 1) IN
         shorter \cup
         {Append(l, SiteRec(i)) : l \in {m \in shorter : Len(m) = n - 1},
                                  i \in SiteIds}

SiteLists ==
    {l \in ListsUpTo(MaxSites) :
        \A i, j \in 1..Len(l) : i # j => l[i].energy_site_id # l[j].energy_site_id}

\* What self.fleet.get_sites() does: returns a list, or raises.
FleetSitesAnswers == {[list |-> l] : l \in SiteLists} \cup {[raises |-> TRUE]}

\* Identifiers handed to change_site: integers, a numeric string, a string
\* that is no number, None.
NumStr(n) == [t |-> "numstr", v |-> n]
BadStr    == [t |-> "badstr", v |-> 0]
SiteArgs  == {PyInt(i) : i \in SiteIds \cup {3}} \cup {NumStr(2), BadStr, PyNone}

\* int(siteid): the number, or NoneId when int() raises.
IntOf(x) == IF x.t \in {"int", "numstr"} THEN x.v ELSE NoneId

\* getsites(): None when no site is set or the client raises, else the list.
getsites(answer) ==
    IF site = None THEN None
    ELSE IF answer = [raises |-> TRUE] THEN None
    ELSE answer

\* 1-based position of the first entry with the identifier, 0 when there is none.
FindSite(sites, id) ==
    LET hits == {i \in 1..Len(sites) : sites[i].energy_site_id = id}
    IN IF hits = {} THEN 0 ELSE CHOOSE i \in hits : \A j \in hits : i <= j

\* Outcome of a connect/change_site call: its argument, what the cloud answers
\* to get_sites, what getsites() gave, the value returned, and the selection
\* before the call.
SelRet(op, x, answer, ok) ==
    [op |-> op, arg |-> x, answer |-> answer, sites |-> getsites(answer),
     ret |-> ok, pre |-> <<siteid, siteindex, site>>]

\* Mutant: a pre-selected identifier that is not listed falls back to the
\* first site, without siteid being updated.
connect_fallback_first(answer) ==
    LET sites == getsites(answer) IN
    /\ IF sites = None \/ sites.list = <<>>
       THEN /\ lastret' = SelRet("connect", PyNone, answer, FALSE)
            /\ UNCHANGED <<siteid, siteindex, site>>
       ELSE IF siteid = NoneId
       THEN /\ siteid' = sites.list[1].energy_site_id
            /\ siteindex' = 0
            /\ site' = sites.list[1]
            /\ lastret' = SelRet("connect", PyNone, answer, TRUE)
       ELSE LET idx == FindSite(sites.list, siteid) IN
            /\ siteindex' = IF idx = 0 THEN 0 ELSE idx - 1
            /\ site' = sites.list[IF idx = 0 THEN 1 ELSE idx]
            /\ lastret' = SelRet("connect", PyNone, answer, TRUE)
            /\ UNCHANGED siteid
    /\ UNCHANGED <<tesla, fleet_site_id, apilock, pwcachetime, pwcacheexpire, now,
                   aggr_stub, sys_stub>>
    /\ UNCHANGED <<callvars, purevars>>

connect(answer) ==
    LET sites == getsites(answer) IN
    /\ IF sites = None \/ sites.list = <<>>
       THEN /\ lastret' = SelRet("connect", PyNone, answer, FALSE)
            /\ UNCHANGED <<siteid, siteindex, site>>
       ELSE IF siteid = NoneId
       THEN /\ siteid' = sites.list[1].energy_site_id
            /\ siteindex' = 0
            /\ site' = sites.list[1]
            /\ lastret' = SelRet("connect", PyNone, answer, TRUE)
       ELSE LET idx == FindSite(sites.list, siteid) IN
            IF idx = 0
            THEN /\ lastret' = SelRet("connect", PyNone, answer, FALSE)
                 /\ UNCHANGED <<siteid, siteindex, site>>
            ELSE /\ siteindex' = idx - 1
                 /\ site' = sites.list[idx]
                 /\ lastret' = SelRet("connect", PyNone, answer, TRUE)
                 /\ UNCHANGED siteid
    /\ UNCHANGED <<tesla, fleet_site_id, apilock, pwcachetime, pwcacheexpire, now,
                   aggr_stub, sys_stub>>
    /\ UNCHANGED <<callvars, purevars>>

\* Mutant: the identifier is stored before the site list is searched.
change_site_eager(x, answer) ==
    LET id    == IntOf(x)
        sites == getsites(answer)
        idx   == IF id = NoneId \/ sites = None THEN 0 ELSE FindSite(sites.list, id)
    IN
    /\ IF idx = 0
       THEN /\ lastret' = SelRet("change_site", x, answer, FALSE)
            /\ siteid' = IF id = NoneId \/ sites = None THEN siteid ELSE id
            /\ UNCHANGED <<siteindex, site>>
       ELSE /\ siteid' = id
            /\ siteindex' = idx - 1
            /\ site' = sites.list[idx]
            /\ lastret' = SelRet("change_site", x, answer, TRUE)
    /\ UNCHANGED <<tesla, fleet_site_id, apilock, pwcachetime, pwcacheexpire, now,
                   aggr_stub, sys_stub>>
    /\ UNCHANGED <<callvars, purevars>>

change_site(x, answer) ==
    LET id    == IntOf(x)
        sites == getsites(answer)
        idx   == IF id = NoneId \/ sites = None THEN 0 ELSE FindSite(sites.list, id)
    IN
    /\ IF idx = 0
       THEN /\ lastret' = SelRet("change_site", x, answer, FALSE)
            /\ UNCHANGED <<siteid, siteindex, site>>
       ELSE /\ siteid' = id
            /\ siteindex' = idx - 1
            /\ site' = sites.list[idx]
            /\ lastret' = SelRet("change_site", x, answer, TRUE)
    /\ UNCHANGED <<tesla, fleet_site_id, apilock, pwcachetime, pwcacheexpire, now,
                   aggr_stub, sys_stub>>
    /\ UNCHANGED <<callvars, purevars>>

\* Site selection on an instance constructed with or without a site, whose
\* site attribute is unset (None) or holds the site siteid names (selected as
\* the first entry of an earlier site list).
InitSite ==
    /\ \E a \in SiteIds \cup {3, NoneId}, cfg \in {NoneId, 1} :
          Constructed(a, cfg, DefaultCacheExpire)
    /\ tesla = NoneStr
    /\ site \in {None} \cup {SiteRec(i) : i \in SiteIds \cap {siteid}}
    /\ lastret = Pending
    /\ now = 0
    /\ CallersIdle
    /\ NoPure

NextSite ==
    \/ \E answer \in FleetSitesAnswers : connect(answer)
    \/ \E x \in SiteArgs, answer \in FleetSitesAnswers : change_site(x, answer)

SpecSite == InitSite /\ [][NextSite]_vars

\* Polls and writes on a connected instance whose site selection is changed
\* while it is in use. The fleet client keeps the site it was constructed for.
SwitchAnswers == {[list |-> <<SiteRec(1), SiteRec(2)>>], [raises |-> TRUE]}
SwitchPolls == {"/api/site_info/site_name", "/api/operation"}

InitSwitch ==
    /\ Constructed(1, NoneId, DefaultCacheExpire)
    /\ tesla = "session"
    /\ site = SiteRec(1)
    /\ lastret = Pending
    /\ now = 0
    /\ CallersIdle
    /\ NoPure

NextSwitch ==
    \/ \E answer \in SwitchAnswers : connect(answer)
    \/ \E x \in {PyInt(i) : i \in SiteIds \cup {3}}, answer \in SwitchAnswers :
          change_site(x, answer)
    \/ \E api \in SwitchPolls : poll(1, api, FALSE)
    \/ \E payload \in SpecPayloads : post(1, "/api/operation", payload)
    \/ \E c \in Waiting :
          \E r \in Responses(LastSent(c), fleet_site_id) : FleetReturn(c, r)

SpecSwitch == InitSwitch /\ [][NextSwitch]_vars

-----------------------------------------------------------------------------
(* The translators applied to every shape of upstream document *)

IslandValues == {"on_grid", "off_grid", "off_grid_intentional", NoneStr}
GridValues   == {"Active", "Inactive", NoneStr}

PureLive == {None} \cup {MkLive(i, g, 1) : i \in IslandValues, g \in GridValues}

PureDins == {Din1, <<"P", "S">>, <<"P", "-", "-", "S", "-", "-", "X">>, NoneSeq}

PureComps == {[gateway |-> "teg"], [gateway |-> "teg", solar |-> TRUE],
              [gateway |-> "teg", solar |-> FALSE],
              [gateway |-> "teg", solar |-> TRUE, inverters |-> <<>>],
              [gateway |-> "teg", solar |-> FALSE, inverters |-> <<"i1", "i2">>]}

PureConfig ==
    {None} \cup {MkConfig(1, d, [gateway |-> "teg"], "self_consumption", 20) :
                    d \in PureDins}
           \cup {MkConfig(1, Din1, k, "self_consumption", 20) : k \in PureComps}

PureFns == {"get_api_system_status_grid_status", "get_api_system_status",
            "get_vitals", "get_api_meters_aggregates"}

\* The document handler fn builds from a configuration and a live status.
Translate(fn, config, power) ==
    CASE fn = "get_api_system_status_grid_status"
            -> Return(get_api_system_status_grid_status(power), "own")
      [] fn = "get_api_system_status"
            -> IF power = None \/ config = None THEN Return(None, "own")
               ELSE Return(SystemStatusUpdate(power, config, PyInt(27), PyInt(13)), "sys")
      [] fn = "get_vitals" -> get_vitals(config, power, 0)
      [] fn = "get_api_meters_aggregates"
            -> Return(get_api_meters_aggregates(config, power), "aggr")

InitPure ==
    /\ Constructed(1, NoneId, DefaultCacheExpire)
    /\ tesla = "session"
    /\ site = None
    /\ lastret = Pending
    /\ now = 0
    /\ CallersIdle
    /\ arg \in [fn : PureFns, config : PureConfig, power : PureLive]
    /\ ret = Pending

ApplyTranslator ==
    /\ ret = Pending
    /\ ret' = Translate(arg.fn, arg.config, arg.power)
    /\ UNCHANGED <<tesla, fleet_site_id, apilock, pwcachetime, pwcacheexpire, now,
                   aggr_stub, sys_stub, arg>>
    /\ UNCHANGED <<selvars, callvars>>

NextPure == ApplyTranslator

SpecPure == InitPure /\ [][NextPure]_vars

-----------------------------------------------------------------------------
(* tools/ray-run.py: is_time_between *)

SecondsPerDay == 86400      \* datetime.timedelta(days=1)

\* A time string "HH:MM" as the two numbers int() reads from it, and the local
\* time now_tz as hour, minute and second of the current day.
TimeStr(h, m) == [h |-> h, m |-> m]
ClockTime(h, m, sec) == [h |-> h, m |-> m, s |-> sec]

\* datetime.replace(hour=..., minute=..., second=0) raises ValueError for an
\* hour or minute out of range.
ValidTimeStr(t) == t.h \in 0..23 /\ t.m \in 0..59

\* Seconds since the midnight that starts now_tz's day.
SecondsOf(h, m, sec) == (h * 60 + m) * 60 + sec

\* is_time_between: start and end are placed on the current day, an end before
\* the start is moved to the next day, and now is compared with both.
is_time_between(start_time_str, end_time_str, now_tz) ==
    IF ~ValidTimeStr(start_time_str) \/ ~ValidTimeStr(end_time_str) THEN FALSE
    ELSE LET start_dt == SecondsOf(start_time_str.h, start_time_str.m, 0)
             end0     == SecondsOf(end_time_str.h, end_time_str.m, 0)
             end_dt   == IF end0 < start_dt THEN end0 + SecondsPerDay ELSE end0
             t        == SecondsOf(now_tz.h, now_tz.m, now_tz.s)
         IN start_dt <= t /\ t <= end_dt

\* The period boundaries the script uses, two more overnight ends, and a time
\* string that is no time of day.
TimeStrs ==
    {TimeStr(0, 0), TimeStr(0, 30), TimeStr(1, 0), TimeStr(12, 0),
     TimeStr(16, 30), TimeStr(21, 0), TimeStr(23, 0), TimeStr(23, 59),
     TimeStr(24, 0)}

ClockTimes ==
    {ClockTime(t.h, t.m, sec) : t \in {u \in TimeStrs : ValidTimeStr(u)},
                                sec \in {0, 30}}

InitTime ==
    /\ Constructed(1, NoneId, DefaultCacheExpire)
    /\ tesla = NoneStr
    /\ site = None
    /\ lastret = Pending
    /\ now = 0
    /\ CallersIdle
    /\ arg \in [fn : {"is_time_between"}, start : TimeStrs, end : TimeStrs,
                now_tz : ClockTimes]
    /\ ret = Pending

ApplyTimeCheck ==
    /\ ret = Pending
    /\ ret' = [kind |-> "return",
               doc |-> is_time_between(arg.start, arg.end, arg.now_tz)]
    /\ UNCHANGED <<tesla, fleet_site_id, apilock, pwcachetime, pwcacheexpire, now,
                   aggr_stub, sys_stub, arg>>
    /\ UNCHANGED <<selvars, callvars>>

NextTime == ApplyTimeCheck

SpecTime == InitTime /\ [][NextTime]_vars

-----------------------------------------------------------------------------
(* Properties *)

Done(c)      == pc[c] = "idle" /\ call[c].op # "none"
Connected    == tesla # NoneStr
FetchFns     == {"get_site_info", "get_live_status"}
IsPoll(c)    == call[c].op = "poll"
IsPost(c)    == call[c].op = "post"
Returned(c)  == result[c].kind = "return"
Count(sq, P(_)) == Cardinality({i \in 1..Len(sq) : P(sq[i])})

\* C1 (as claimed): single-flight. Among concurrent polls with force=false, at
\* most one upstream fetch of a resource key (site config, live status) is in
\* flight at any moment.
C1_SingleFlight ==
    \A c, d \in Callers :
        (/\ c # d
         /\ pc[c] = "wait" /\ pc[d] = "wait"
         /\ IsPoll(c) /\ IsPoll(d) /\ ~call[c].force /\ ~call[d].force
         /\ LastSent(c).fn \in FetchFns)
        => LastSent(c).fn # LastSent(d).fn

\* C2 (as claimed): in every state of the instance, a poll of a path that is
\* not in the read table returns {"ERROR": "Unknown API: <path>"}, does not
\* raise, and calls nothing upstream.
C2_UnknownPollNeverRaises ==
    \A c \in Callers :
        (Done(c) /\ IsPoll(c) /\ call[c].api \notin DOMAIN poll_api_map)
        => /\ result[c] = Return(UnknownAPI(call[c].api), "own")
           /\ sent[c] = <<>>

FalseReserveOnly == [backup_reserve_percent |-> PyBool(FALSE), real_mode |-> Absent]
IsSetReserve0(r) == r = Req("set_battery_reserve", PyInt(0))
IsSetReserve(r)  == r.fn = "set_battery_reserve"

\* C3 (as claimed): on a connected instance, a write to /api/operation with
\* payload {"backup_reserve_percent": false} is accepted: it does not raise and
\* makes exactly one set-reserve call upstream, with the value 0.
C3_FalseReserveAccepted ==
    \A c \in Callers :
        (/\ Connected /\ Done(c) /\ IsPost(c)
         /\ call[c].api = "/api/operation"
         /\ call[c].payload = FalseReserveOnly)
        => /\ Returned(c)
           /\ Count(sent[c], IsSetReserve0) = 1
           /\ Count(sent[c], IsSetReserve) = 1

\* The payload is a dictionary with neither backup_reserve_percent nor real_mode.
HasNeither(payload) ==
    /\ payload # None
    /\ payload.backup_reserve_percent = Absent
    /\ payload.real_mode = Absent

\* C4: a write to /api/operation whose payload has neither field ends in an
\* explicit failure, never in a returned document: once past the connection
\* check it raises the invalid-payload error; no call is made upstream and no
\* cache entry is invalidated.
C4_NeitherFieldRejected ==
    \A c \in Callers :
        (Done(c) /\ IsPost(c) /\ call[c].api = "/api/operation"
            /\ HasNeither(call[c].payload))
        => /\ result[c].kind = "raise"
           /\ Connected => result[c].exc = "PyPowerwallFleetAPIInvalidPayload"
           /\ sent[c] = <<>>
           /\ pwcachetime = {}

\* C4 witness: a connected instance has rejected the payload {}.
C4_Witness ==
    \E c \in Callers :
        /\ Connected /\ Done(c) /\ IsPost(c) /\ call[c].api = "/api/operation"
        /\ HasNeither(call[c].payload)
        /\ result[c] = Raise("PyPowerwallFleetAPIInvalidPayload")

\* C5: when a post to a write path returns a truthy result, the read cache of
\* that path has been invalidated before it returned (the invalidation is the
\* last call post makes and no cache entry of the path is left), and the next
\* poll of /api/operation makes exactly one upstream fetch of the site
\* configuration and answers from it.
C5_WriteInvalidates ==
    \A c \in Callers :
        /\ (Done(c) /\ IsPost(c) /\ ResTruthy(result[c]))
           => /\ sent[c] # <<>>
              /\ LastSent(c) = InvalidateReq(call[c].api)
              /\ \A e \in pwcachetime : e[1] # call[c].api
        /\ (Done(c) /\ IsPoll(c) /\ call[c].after_post
                /\ call[c].api = "/api/operation")
           => /\ Returned(c)
              /\ sent[c] = <<Req("get_site_info", PyNone)>>
              /\ Len(got[c]) = 1
              /\ got[c][1] = None => result[c].doc = None
              /\ got[c][1] # None =>
                    /\ result[c].doc.real_mode = got[c][1].default_real_mode
                    /\ result[c].doc.backup_reserve_percent
                           = got[c][1].backup_reserve_percent

\* C5 witness: the poll of /api/operation that follows a successful write has
\* returned the configuration it fetched.
C5_Witness ==
    \E c \in Callers :
        /\ Done(c) /\ IsPoll(c) /\ call[c].after_post
        /\ call[c].api = "/api/operation"
        /\ Returned(c) /\ result[c].doc # None

FetchPaths == LivePaths \ {"/api/devices/vitals"}

\* C6 (as claimed): a poll with force=true that returns a document has fetched
\* upstream during the call and has stored the result in the cache with the
\* current timestamp.
C6_ForceBypassesCache ==
    \A c \in Callers :
        (/\ Connected /\ Done(c) /\ IsPoll(c) /\ call[c].force
         /\ call[c].api \in FetchPaths
         /\ Returned(c) /\ result[c].doc # None)
        => /\ sent[c] # <<>>
           /\ Len(got[c]) = Len(sent[c])
           /\ \E e \in pwcachetime : e[2] <= now

C8_GridStatusMapping ==
    (/\ ret # Pending
     /\ arg.fn = "get_api_system_status_grid_status"
     /\ arg.power # None)
    => LET isl == arg.power.island_status
           gs  == arg.power.grid_status
           out == ret.doc.grid_status
       IN /\ out \in {"SystemGridConnected", "SystemIslandedActive"}
          /\ isl = "on_grid" => out = "SystemGridConnected"
          /\ (isl = "off_grid" /\ gs = "Active") => out = "SystemGridConnected"
          /\ (isl = "off_grid" /\ gs # "Active") => out = "SystemIslandedActive"

\* The site list answered to a change_site call has no entry for its argument.
NoMatch(r) ==
    \/ r.arg.t \notin {"int", "numstr"}
    \/ r.answer = [raises |-> TRUE]
    \/ /\ r.answer # [raises |-> TRUE]
       /\ \A i \in 1..Len(r.answer.list) :
             r.answer.list[i].energy_site_id # r.arg.v

\* C9: change_site with an identifier that is not in the upstream site list, or
\* with an empty or unavailable list, or with a non-integer, returns failure;
\* and a change_site that returns failure leaves siteid, siteindex and site
\* exactly as they were before the call.
C9_FailedChangeKeepsSelection ==
    (lastret # Pending /\ lastret.op = "change_site")
    => /\ NoMatch(lastret) => lastret.ret = FALSE
       /\ lastret.ret = FALSE => <<siteid, siteindex, site>> = lastret.pre

\* C9 witness: a change_site to an integer identifier that the fetched,
\* non-empty site list does not hold has returned failure.
C9_Witness ==
    /\ lastret # Pending /\ lastret.op = "change_site"
    /\ lastret.arg.t = "int"
    /\ lastret.sites # None /\ lastret.sites.list # <<>>
    /\ NoMatch(lastret)
    /\ lastret.ret = FALSE
    /\ lastret.pre[1] # lastret.arg.v

\* C10 (as claimed): connect() against a non-empty upstream site list selects
\* the first site when none was pre-selected, selects the entry with the
\* pre-selected identifier when there is one, and fails when there is none;
\* against an empty or unavailable list it fails.
C10_ConnectSelects ==
    (lastret # Pending /\ lastret.op = "connect")
    => IF lastret.answer = [raises |-> TRUE] THEN lastret.ret = FALSE
       ELSE LET l   == lastret.answer.list
                pre == lastret.pre[1]
                has == \E i \in 1..Len(l) : l[i].energy_site_id = pre
            IN IF l = <<>> THEN lastret.ret = FALSE
               ELSE IF pre = NoneId
               THEN /\ lastret.ret = TRUE
                    /\ siteid = l[1].energy_site_id
                    /\ siteindex = 0
                    /\ site = l[1]
               ELSE IF has
               THEN /\ lastret.ret = TRUE
                    /\ siteid = pre
                    /\ site = l[siteindex + 1]
                    /\ site.energy_site_id = pre
               ELSE lastret.ret = FALSE

\* A payload post_api_operation accepts: a dictionary with a truthy field.
ValidPayload(payload) ==
    /\ payload # None
    /\ \/ Truthy(payload.backup_reserve_percent)
       \/ Truthy(payload.real_mode)

\* The field is in the payload with a value.
Present(x) == x # Absent /\ x # PyNone

IsSetMode(r) == r.fn = "set_operating_mode"

DocPaths ==
    {"/api/status", "/api/system_status/grid_status", "/api/site_info/site_name",
     "/api/site_info", "/vitals", "/api/meters/aggregates", "/api/operation",
     "/api/system_status"}

\* The fleet-client calls that fetch an upstream document.
DocFns == FetchFns \cup {"get_battery"}

\* An upstream fetch made for caller c's call came back without data.
FetchFailed(c) ==
    \E i \in 1..Len(got[c]) : sent[c][i].fn \in DocFns /\ got[c][i] = None

C13_UnknownPostNeverRaises ==
    \A c \in Callers :
        (Done(c) /\ IsPost(c) /\ call[c].api \notin DOMAIN post_api_map)
        => /\ result[c] = Return(UnknownAPI(call[c].api), "own")
           /\ sent[c] = <<>>
           /\ pwcachetime = {}

\* The vitals translator was applied to a configuration and a live status.
VitalsApplied ==
    /\ ret # Pending
    /\ arg.fn = "get_vitals"
    /\ arg.config # None /\ arg.power # None

\* C14 (as claimed): the vitals translator always returns a document; the
\* identifier P--S gives part number P and serial number S, and an identifier
\* without separator, with more than one separator, or missing from the
\* configuration gives null for both.
C14_VitalsIdentifierSplit ==
    VitalsApplied
    => /\ ret.kind = "return"
       /\ arg.config.id = <<"P", "-", "-", "S">> =>
             /\ ret.doc.partNumber = <<"P">>
             /\ ret.doc.serialNumber = <<"S">>
       /\ arg.config.id # <<"P", "-", "-", "S">> =>
             /\ ret.doc.partNumber = NoneSeq
             /\ ret.doc.serialNumber = NoneSeq

\* The grid-status mapping of a live-status document is grid-connected:
\* island_status "on_grid", or an Active grid_status as fallback.
MapsToGridConnected(power) ==
    power.island_status = "on_grid" \/ power.grid_status = "Active"

IslandAlerts == {"ScheduledIslandContactorOpen", "UnscheduledIslandContactorOpen"}

\* C15 (as claimed): the alert of the vitals translator follows the grid-status
\* precedence: when the live status maps to grid-connected the alert is
\* SystemConnectedToGrid, and an island alert is reported only when it maps to
\* islanded-active.
C15_AlertFollowsGridStatus ==
    (VitalsApplied /\ ret.kind = "return")
    => LET alert == ret.doc.alerts[1] IN
       /\ MapsToGridConnected(arg.power) => alert = "SystemConnectedToGrid"
       /\ alert \in IslandAlerts => ~MapsToGridConnected(arg.power)

\* The aggregates translator was applied and returned a document.
AggregatesApplied ==
    /\ ret # Pending
    /\ arg.fn = "get_api_meters_aggregates"
    /\ arg.config # None /\ arg.power # None

\* C18: the solar meter of the meters-aggregates document reports
\* num_meters_aggregated as the length of the inverter inventory when the
\* configuration has one (0 for an empty one), otherwise 1 when the solar
\* component flag is set, otherwise 0.
C18_SolarMeterCount ==
    AggregatesApplied
    => LET comps == arg.config.components
           n     == ret.doc.solar.num_meters_aggregated
       IN /\ ret.kind = "return"
          /\ "inverters" \in DOMAIN comps => n = Len(comps.inverters)
          /\ ("inverters" \notin DOMAIN comps /\ "solar" \in DOMAIN comps
                 /\ comps.solar) => n = 1
          /\ ("inverters" \notin DOMAIN comps
                 /\ ("solar" \notin DOMAIN comps \/ ~comps.solar)) => n = 0

\* C18 witness: a configuration with the solar flag set and an empty inverter
\* inventory has been reported with 0 solar meters.
C18_Witness ==
    /\ AggregatesApplied
    /\ arg.config.components = [gateway |-> "teg", solar |-> TRUE, inverters |-> <<>>]
    /\ ret.doc.solar.num_meters_aggregated = 0

\* The resource key (fleet-client fetch) a poll of the path asks for first.
FirstKey(api) ==
    CASE api = "/api/operation"                 -> "get_site_info"
      [] api = "/api/meters/aggregates"         -> "get_site_info"
      [] api = "/api/system_status/grid_status" -> "get_live_status"

\* A fetch of the key has failed in a call that is over.
HasFailed(key) == \E a \in Callers : pc[a] = "idle" /\ key \in FailedCalls(a)

\* Caller c starts a poll in this step.
StartsPoll(c) == pc[c] = "idle" /\ call'[c] # call[c] /\ call'[c].op = "poll"

\* C16: a failed fetch leaves no key locked and nothing cached: whenever a
\* caller is idle, whatever fetches have failed before, no lock flag is set, no
\* cache entry exists after a failure and a poll of every path can start; and
\* a poll that starts after a fetch of the key it needs has failed makes a
\* new upstream fetch of that key at once.
C16_FailedFetchReleasesLock ==
    /\ [](\A c \in Callers : pc[c] = "idle" =>
            /\ apilock = {}
            /\ FailedCalls(c) # {} => pwcachetime = {}
            /\ \A api \in SpecPolls : ENABLED poll(c, api, FALSE))
    /\ [][\A c \in Callers :
            (/\ Connected /\ StartsPoll(c)
             /\ call'[c].api \in SpecPolls
             /\ HasFailed(FirstKey(call'[c].api)))
            => /\ pc'[c] = "wait"
               /\ sent'[c] = <<Req(FirstKey(call'[c].api), PyNone)>>]_vars

\* C16 witness: after a fetch of the live status failed for one poll, a later
\* poll of the grid-status path is waiting for its own fetch of the live status.
C16_Witness ==
    \E a, c \in Callers :
        /\ pc[a] = "idle" /\ "get_live_status" \in FailedCalls(a)
        /\ pc[c] = "wait" /\ call[c].api = "/api/system_status/grid_status"
        /\ call[a].api = "/api/system_status/grid_status"
        /\ LastSent(c).fn = "get_live_status"

GridStatusPath == "/api/system_status/grid_status"

\* Caller a has a fetch of the site configuration in flight.
FetchingConfig(a) == pc[a] = "wait" /\ LastSent(a).fn = "get_site_info"

\* C17: locking is per key. While a fetch of the site configuration is in
\* flight, a poll that needs only the live status can start (it is never
\* blocked); and a poll of the grid-status path always makes its own fetch of
\* the live status and answers from what that fetch returned, never from an
\* earlier value.
C17_UnrelatedKeysDoNotContend ==
    /\ \A a, b \in Callers :
          (a # b /\ FetchingConfig(a) /\ pc[b] = "idle")
          => ENABLED poll(b, GridStatusPath, FALSE)
    /\ \A b \in Callers :
          (Connected /\ Done(b) /\ IsPoll(b) /\ call[b].api = GridStatusPath)
          => /\ Returned(b)
             /\ sent[b] = <<Req("get_live_status", PyNone)>>
             /\ Len(got[b]) = 1
             /\ got[b][1] = None => result[b].doc = None
             /\ got[b][1] # None =>
                   /\ result[b].doc # None
                   /\ result[b].doc.grid_status =
                         IF got[b][1].grid_status = "Active"
                         THEN "SystemGridConnected" ELSE "SystemIslandedActive"

\* C17 witness: a fetch of the site configuration and a grid-status poll's
\* fetch of the live status are in flight at the same time.
C17_Witness ==
    \E a, b \in Callers :
        /\ a # b /\ FetchingConfig(a)
        /\ pc[b] = "wait" /\ IsPoll(b) /\ call[b].api = GridStatusPath
        /\ LastSent(b).fn = "get_live_status"

\* The last site-selection call was a change_site that returned success.
ChangeSucceeded ==
    lastret # Pending /\ lastret.op = "change_site" /\ lastret.ret = TRUE

\* C19 (as claimed): after change_site returned success, a poll made under the
\* new selection is answered from the newly selected site: every site
\* configuration it received is that of the selected site.
C19_PollsFollowChangeSite ==
    \A c \in Callers :
        (/\ ChangeSucceeded
         /\ Done(c) /\ IsPoll(c) /\ Returned(c)
         /\ call[c].selected = siteid)
        => \A i \in 1..Len(got[c]) :
              (sent[c][i].fn = "get_site_info" /\ got[c][i] # None)
              => got[c][i].site = siteid

SnapshotPaths == {"/api/meters/aggregates", "/api/system_status"}

\* C20 (as claimed): a document returned by a poll of the meters-aggregates or
\* system-status path is a snapshot: what the caller holds keeps the contents
\* it was returned with, whatever later or concurrent polls do, and all its
\* readings come from one live-status document read by that call.
C20_ReturnedDocIsSnapshot ==
    \A c \in Callers :
        (/\ Done(c) /\ IsPoll(c) /\ call[c].api \in SnapshotPaths
         /\ Returned(c) /\ result[c].doc # None)
        => /\ Deref(result[c]) = result[c].doc
           /\ call[c].api = "/api/meters/aggregates" =>
                 LET held == Deref(result[c]) IN
                 \E i \in 1..Len(got[c]) :
                    /\ sent[c][i].fn = "get_live_status"
                    /\ held.site.last_communication_time = got[c][i].timestamp
                    /\ held.solar.instant_power = got[c][i].solar_power
                    /\ held.load.instant_power = got[c][i].load_power

\* C21: site-selection consistency. Whenever a current site is set, its
\* energy_site_id equals siteid; a connect or change_site that succeeds leaves
\* site the entry at position siteindex of the list it was given, carrying
\* siteid; one that fails leaves siteid, siteindex and site as they were.
C21_SelectionConsistent ==
    /\ [](site # None => site.energy_site_id = siteid)
    /\ [][lastret' # lastret =>
            IF lastret'.ret
            THEN /\ siteindex' + 1 \in 1..Len(lastret'.answer.list)
                 /\ site' = lastret'.answer.list[siteindex' + 1]
                 /\ site'.energy_site_id = siteid'
            ELSE UNCHANGED <<siteid, siteindex, site>>]_vars

\* C21 witness: with a site set, a connect whose pre-selected identifier is
\* not in the fetched, non-empty list has failed.
C21_Witness ==
    /\ lastret # Pending /\ lastret.op = "connect" /\ lastret.ret = FALSE
    /\ lastret.sites # None /\ lastret.sites.list # <<>>
    /\ \A i \in 1..Len(lastret.sites.list) :
          lastret.sites.list[i].energy_site_id # siteid
    /\ site # None

\* The time of day now lies in the inclusive range from start to end, an end
\* earlier than the start meaning the range runs past midnight.
InDailyRange(start, end, t) ==
    LET a == SecondsOf(start.h, start.m, 0)
        b == SecondsOf(end.h, end.m, 0)
        n == SecondsOf(t.h, t.m, t.s)
    IN IF a <= b THEN a <= n /\ n <= b
       ELSE n >= a \/ n <= b

\* C22 (as claimed): for times of day start and end, is_time_between returns
\* true exactly when the current local time of day lies in the inclusive range
\* from start to end; for an overnight range this includes the times at or
\* after start and the times at or before end after midnight.
C22_TimeBetween ==
    (/\ ret # Pending
     /\ ValidTimeStr(arg.start) /\ ValidTimeStr(arg.end))
    => ret.doc = InDailyRange(arg.start, arg.end, arg.now_tz)

====
